---- MODULE Spec2Model ----
(***************************************************************************)
(* Model of cuegui/MainWindow.py: the class-level window registry, the     *)
(* shared Window menu, the per-window facility menu and the close / exit   *)
(* protocol.                                                               *)
(*                                                                         *)
(* Text is modelled as a sequence of atoms (TLA+ strings), so that         *)
(* formatting a menu label and parsing it back are two different           *)
(* computations.  Every handler is a function from a state record to a     *)
(* state record; an action applies one handler, with everything it calls,  *)
(* to the current state.  The record's field effects lists, in order, what *)
(* the handler did to the outside: windows raised, close events handled,   *)
(* backend calls and signals.                                              *)
(***************************************************************************)
EXTENDS Naturals, Integers, Sequences, FiniteSets, TLC

VARIABLES windows, win, windows_titles, windows_actions, settings,
          closingApp, quit, actions_facility, cuebot_facility,
          facility_default, last

vars == <<windows, win, windows_titles, windows_actions, settings,
          closingApp, quit, actions_facility, cuebot_facility,
          facility_default, last>>

(* ------------------------------ bounds -------------------------------- *)
\* operations performed in one run of the application
MaxOps == 6
\* windows the user closes one by one before the application exits
MaxCloses == 1
\* titles a user may type into the rename dialog (prefix of TitlePool)
NumTitles == 2
\* facilities in the cuebot configuration (prefix of FacilityPool)
NumFacilities == 2

(* ------------------------------- text --------------------------------- *)
NumStr(n) == <<"1", "2", "3", "4", "5", "6", "7", "8", "9">>[n]

StrToInt(a) == CHOOSE n \in 1..9 : NumStr(n) = a

CharLen(a) ==
  CASE a = "Open Window: " -> 13
    [] a = "Raise Window: " -> 14
    [] a = "Add new window" -> 14
    [] a = "App" -> 3
    [] OTHER -> 1

RECURSIVE StrLen(_)
StrLen(t) == IF t = <<>> THEN 0 ELSE CharLen(Head(t)) + StrLen(Tail(t))

StartsWith(t, a) == t # <<>> /\ Head(t) = a

EndsWith(t, a) == t # <<>> /\ t[Len(t)] = a

Replace(t, a) == SelectSeq(t, LAMBDA x : x # a)

app_name == <<"App">>

windows_names ==
  <<app_name>> \o [i \in 1..3 |-> app_name \o <<"_", NumStr(i + 1)>>]

Names == {windows_names[i] : i \in 1..Len(windows_names)}

Key(name, what) == name \o <<"/", what>>

TitlePool ==
  << <<"X">>, windows_names[2], <<>>, <<"Open Window: ", "X">>, app_name, <<"Y">> >>

TitleChoices == {TitlePool[i] : i \in 1..NumTitles}

FacilityPool == <<"local", "cloud", "lab", "dev">>

facility_dict == SubSeq(FacilityPool, 1, NumFacilities)

Facilities == {facility_dict[i] : i \in 1..NumFacilities}

(* ------------------------------ settings ------------------------------ *)
value(store, key, default) ==
  IF key \in DOMAIN store THEN store[key] ELSE default

setValue(store, key, v) == (key :> v) @@ store

(* ------------------------------- state -------------------------------- *)
\* win[id] is the window object constructed id-th: its slot name, its live
\* title, and whether it is open, closed (hidden) or destroyed
Destroyed == [name |-> <<>>, title |-> <<>>, st |-> "destroyed"]

State ==
  [windows |-> windows, win |-> win, windows_titles |-> windows_titles,
   windows_actions |-> windows_actions, settings |-> settings,
   closingApp |-> closingApp, quit |-> quit,
   actions_facility |-> actions_facility, cuebot_facility |-> cuebot_facility,
   facility_default |-> facility_default, effects |-> <<>>]

Becomes(s) ==
  /\ windows' = s.windows
  /\ win' = s.win
  /\ windows_titles' = s.windows_titles
  /\ windows_actions' = s.windows_actions
  /\ settings' = s.settings
  /\ closingApp' = s.closingApp
  /\ quit' = s.quit
  /\ actions_facility' = s.actions_facility
  /\ cuebot_facility' = s.cuebot_facility
  /\ facility_default' = s.facility_default

Effect(op, id, arg) == [op |-> op, id |-> id, arg |-> arg]

Log(s, op, id, arg) == [s EXCEPT !.effects = Append(@, Effect(op, id, arg))]

windowTitle(s, id) == s.win[id].title

(* --------------------------- facility menu ---------------------------- *)
facilityMenuSetup(s, id) ==
  [s EXCEPT !.actions_facility = Append(@, {s.facility_default})]

RECURSIVE firstChecked(_, _)
firstChecked(chk, i) ==
  IF i > Len(facility_dict) THEN 0
  ELSE IF facility_dict[i] \in chk THEN i
  ELSE firstChecked(chk, i + 1)

\* variant: checking an entry leaves the other entries as they are
facilityMenuHandle_keepOthers(s, id, action) ==
  LET chk == s.actions_facility[id]
      s1 == IF action \notin chk /\ chk = {}
            THEN [s EXCEPT !.actions_facility[id] = {s.facility_default}]
            ELSE s
      i == firstChecked(s1.actions_facility[id], 1)
  IN IF i = 0 THEN s1
     ELSE Log(Log([s1 EXCEPT !.cuebot_facility = facility_dict[i]],
                  "setFacility", id, <<facility_dict[i]>>),
              "facility_changed", id, <<>>)

\* variant: the backend is told before the other entries are unchecked
facilityMenuHandle_early(s, id, action) ==
  LET chk == s.actions_facility[id]
      s1 == IF action \notin chk
            THEN IF chk = {}
                 THEN [s EXCEPT !.actions_facility[id] = {s.facility_default}]
                 ELSE s
            ELSE [s EXCEPT !.actions_facility[id] = {f \in chk : ~(f # action)}]
      i == firstChecked(IF chk = {} THEN s1.actions_facility[id] ELSE chk, 1)
  IN IF i = 0 THEN s1
     ELSE Log(Log([s1 EXCEPT !.cuebot_facility = facility_dict[i]],
                  "setFacility", id, <<facility_dict[i]>>),
              "facility_changed", id, <<>>)

facilityMenuHandle(s, id, action) ==
  LET chk == s.actions_facility[id]
      s1 == IF action \notin chk
            THEN IF chk = {}
                 THEN [s EXCEPT !.actions_facility[id] = {s.facility_default}]
                 ELSE s
            ELSE [s EXCEPT !.actions_facility[id] = {f \in chk : ~(f # action)}]
      i == firstChecked(s1.actions_facility[id], 1)
  IN IF i = 0 THEN s1
     ELSE Log(Log([s1 EXCEPT !.cuebot_facility = facility_dict[i]],
                  "setFacility", id, <<facility_dict[i]>>),
              "facility_changed", id, <<>>)

(* ---------------------------- window menu ----------------------------- *)
AddLabel(number) == <<"(", NumStr(number), ")", " ", "Add new window">>

\* variant: a slot counts as customized when its title differs from its name
SlotLabel_byName(s, number) ==
  LET name == windows_names[number]
  IN IF s.windows_titles[name] # name
     THEN <<"Open Window: ">> \o s.windows_titles[name]
     ELSE AddLabel(number)

SlotLabel(s, number) ==
  LET name == windows_names[number]
      title == value(s.settings, Key(name, "Title"), <<>>)
  IN IF title # <<>>
     THEN <<"Open Window: ">> \o s.windows_titles[name]
     ELSE AddLabel(number)

RECURSIVE RaiseLabels(_, _, _)
RaiseLabels(s, acts, i) ==
  IF i > Len(s.windows) THEN acts
  ELSE LET w == s.win[s.windows[i]]
       IN RaiseLabels(s, [acts EXCEPT ![w.name] = <<"Raise Window: ">> \o w.title],
                      i + 1)

windowMenuUpdate(s) ==
  LET texts == [name \in DOMAIN s.windows_actions |->
                  LET number == CHOOSE n \in 1..Len(windows_names) :
                                  windows_names[n] = name
                  IN SlotLabel(s, number)]
  IN [s EXCEPT !.windows_actions = RaiseLabels(s, texts, 1)]

windowMenuSetup(s) ==
  LET s1 == IF DOMAIN s.windows_titles = {}
            THEN [s EXCEPT !.windows_titles =
                    [name \in Names |-> value(s.settings, Key(name, "Title"), name)]]
            ELSE s
      s2 == [s1 EXCEPT !.windows_actions =
               [name \in Names |-> IF name \in DOMAIN s1.windows_actions
                                   THEN s1.windows_actions[name] ELSE <<>>]]
  IN windowMenuUpdate(s2)

createMenus(s, id) == windowMenuSetup(facilityMenuSetup(s, id))

(* ------------------------- open / construction ------------------------ *)
\* variant: the window registers itself twice
windowOpened_twice(s, id) ==
  [s EXCEPT !.quit = Append(@, id),
            !.windows = Append(Append(@, id), id),
            !.closingApp = FALSE]

\* variant: the window does not subscribe to quit
windowOpened_noConnect(s, id) ==
  [s EXCEPT !.windows = Append(@, id),
            !.closingApp = FALSE]

windowOpened(s, id) ==
  [s EXCEPT !.quit = Append(@, id),
            !.windows = Append(@, id),
            !.closingApp = FALSE]

restoreSettings(s, id) ==
  [s EXCEPT !.win[id].title =
     value(s.settings, Key(s.win[id].name, "Title"), app_name)]

\* MainWindow(app_name, app_version, window_name); the new object gets the
\* next index of win
MainWindowInit(s, window_name) ==
  LET id == Len(s.win) + 1
      name == IF window_name # <<>> THEN window_name ELSE windows_names[1]
      s1 == [s EXCEPT !.win = Append(@, [name |-> name, title |-> <<>>, st |-> "open"])]
  IN restoreSettings(createMenus(windowOpened(s1, id), id), id)

RECURSIVE findWindow_byTitle(_, _, _)
\* variant: the lookup compares live titles only
findWindow_byTitle(s, key, i) ==
  IF i > Len(s.windows) THEN 0
  ELSE IF windowTitle(s, s.windows[i]) = key
       THEN i
       ELSE findWindow_byTitle(s, key, i + 1)

RECURSIVE findWindow(_, _, _)
\* index of the first window whose slot name or live title is key, 0 if none
findWindow(s, key, i) ==
  IF i > Len(s.windows) THEN 0
  ELSE IF s.win[s.windows[i]].name = key \/ windowTitle(s, s.windows[i]) = key
       THEN i
       ELSE findWindow(s, key, i + 1)

windowMenuOpenWindow(s, name) ==
  LET i == findWindow(s, name, 1)
  IN IF i # 0 THEN Log(s, "raise", s.windows[i], <<>>)
     ELSE LET id == Len(s.win) + 1
              s1 == MainWindowInit(s, name)
              s2 == IF windowTitle(s1, id) = app_name
                    THEN [s1 EXCEPT !.win[id].title = name]
                    ELSE s1
          IN windowMenuUpdate(Log(s2, "raise", id, <<>>))

(* --------------------------- close / exit ----------------------------- *)
saveSettings(s, id) ==
  LET name == s.win[id].name
      st1 == setValue(s.settings, <<"Version">>, <<"version">>)
      st2 == setValue(st1, Key(name, "Title"), windowTitle(s, id))
      st3 == setValue(st2, Key(name, "State"), <<"state">>)
      st4 == setValue(st3, Key(name, "Size"), <<"size">>)
      st5 == setValue(st4, Key(name, "Position"), <<"pos">>)
  IN [s EXCEPT !.settings = st5]

RECURSIVE removeFirst(_, _)
removeFirst(list, x) ==
  IF list = <<>> THEN <<>>
  ELSE IF Head(list) = x THEN Tail(list)
  ELSE <<Head(list)>> \o removeFirst(Tail(list), x)

windowClosed(s, id) ==
  LET s1 == [s EXCEPT !.quit = Append(@, id)]
      s2 == [s1 EXCEPT !.settings =
               setValue(@, Key(s.win[id].name, "Open"), s1.closingApp)]
      s3 == [s2 EXCEPT !.windows = removeFirst(@, id)]
  IN windowMenuUpdate(s3)

closeEvent(s, id) ==
  windowClosed(saveSettings(Log(s, "closeEvent", id, <<>>), id), id)

\* QWidget.close(): deliver the close event, then hide the window
close(s, id) == [closeEvent(s, id) EXCEPT !.win[id].st = "closed"]

RECURSIVE quitEmit(_, _)
\* the receivers connected when the emission starts, in connection order
quitEmit(s, receivers) ==
  IF receivers = <<>> THEN s
  ELSE quitEmit(close(s, Head(receivers)), Tail(receivers))

\* variant: the close action closes every window subscribed to quit
windowCloseWindow_all(s, id) == quitEmit(s, s.quit)

windowCloseWindow(s, id) == close(s, id)

windowCloseApplication(s, id) ==
  LET s1 == [s EXCEPT !.closingApp = TRUE]
  IN quitEmit(s1, s1.quit)

\* variant: the answer to the question dialog is not looked at
revertLayout_always(s, id, result) ==
  windowCloseApplication(
    [s EXCEPT !.settings = setValue(@, <<"RevertLayout">>, TRUE)], id)

revertLayout(s, id, result) ==
  IF result = "Yes"
  THEN windowCloseApplication(
         [s EXCEPT !.settings = setValue(@, <<"RevertLayout">>, TRUE)], id)
  ELSE s

(* ------------------------ window menu handlers ------------------------ *)
RECURSIVE openTitled(_, _, _)
\* for name in self.windows_titles: open every slot whose title matches
openTitled(s, window_title, i) ==
  IF i > Len(windows_names) THEN s
  ELSE LET name == windows_names[i]
       IN openTitled(IF s.windows_titles[name] = window_title
                     THEN windowMenuOpenWindow(s, name) ELSE s,
                     window_title, i + 1)

RECURSIVE raiseTitled(_, _, _)
raiseTitled(s, window_title, i) ==
  IF i > Len(s.windows) THEN s
  ELSE IF windowTitle(s, s.windows[i]) = window_title
       THEN Log(s, "raise", s.windows[i], <<>>)
       ELSE raiseTitled(s, window_title, i + 1)

AddLabelLen == 18

windowMenuHandle(s, action) ==
  LET action_title == s.windows_actions[action]
  IN IF StartsWith(action_title, "Open Window: ")
     THEN openTitled(s, Replace(action_title, "Open Window: "), 1)
     ELSE IF EndsWith(action_title, "Add new window")
             /\ StrLen(action_title) = AddLabelLen
     THEN windowMenuOpenWindow(s, windows_names[StrToInt(action_title[2]) - 1 + 1])
     ELSE IF StartsWith(action_title, "Raise Window: ")
     THEN raiseTitled(s, Replace(action_title, "Raise Window: "), 1)
     ELSE s

\* variant: the collision check compares live titles only
windowMenuHandleChangeTitle_titlesOnly(s, id, val, choice) ==
  LET name == s.win[id].name
      taken == \E i \in 1..Len(s.windows) : windowTitle(s, s.windows[i]) = val
      s1 == IF choice
            THEN [s EXCEPT !.win[id].title = val, !.windows_titles[name] = val]
            ELSE s
      s2 == [s1 EXCEPT !.settings = setValue(@, Key(name, "Title"), windowTitle(s1, id))]
  IN IF choice /\ taken THEN s ELSE windowMenuUpdate(s2)

windowMenuHandleChangeTitle(s, id, val, choice) ==
  LET name == s.win[id].name
      taken == \E i \in 1..Len(s.windows) :
                 \/ s.win[s.windows[i]].name = val
                 \/ windowTitle(s, s.windows[i]) = val
      s1 == IF choice
            THEN [s EXCEPT !.win[id].title = val, !.windows_titles[name] = val]
            ELSE s
      s2 == [s1 EXCEPT !.settings = setValue(@, Key(name, "Title"), windowTitle(s1, id))]
  IN IF choice /\ taken THEN s ELSE windowMenuUpdate(s2)

RECURSIVE emitTriggered(_, _, _)
\* the slot actions are shared by the Window menus of all window objects;
\* every menu holding the activated action emits triggered(action)
emitTriggered(s, action, menus) ==
  IF menus = 0 THEN s
  ELSE emitTriggered(windowMenuHandle(s, action), action, menus - 1)

windowMenuTriggered(s, action) ==
  emitTriggered(s, action,
                Cardinality({i \in 1..Len(s.win) : s.win[i].st # "destroyed"}))

\* a closed window object that nothing references any more is destroyed at a
\* moment the program does not control; its connections go with it
destroy(s, id) ==
  [s EXCEPT !.win[id] = Destroyed,
            !.actions_facility[id] = {},
            !.quit = SelectSeq(@, LAMBDA r : r # id)]

(* ---------------------------- the program ----------------------------- *)
\* the class attributes before the first window is constructed, with a
\* fresh settings store
ClassState(default) ==
  [windows |-> <<>>, win |-> <<>>, windows_titles |-> <<>>,
   windows_actions |-> <<>>, settings |-> <<>>, closingApp |-> FALSE,
   quit |-> <<>>, actions_facility |-> <<>>, cuebot_facility |-> default,
   facility_default |-> default, effects |-> <<>>]

\* the operation performed last: its kind, how many windows were open when it
\* began, how many times it did what it is for (windows constructed, close
\* events handled, backend calls made, other windows a rename request
\* collided with), whether it took its main branch, and how many operations
\* the run has performed
Op(op, n, flag) ==
  [op |-> op, was |-> Len(windows), n |-> n, flag |-> flag, k |-> last.k + 1]

Count(s, op) == Len(SelectSeq(s.effects, LAMBDA e : e.op = op))

InitWith(default) ==
  LET s == MainWindowInit(ClassState(default), <<>>)
  IN /\ windows = s.windows
     /\ win = s.win
     /\ windows_titles = s.windows_titles
     /\ windows_actions = s.windows_actions
     /\ settings = s.settings
     /\ closingApp = s.closingApp
     /\ quit = s.quit
     /\ actions_facility = s.actions_facility
     /\ cuebot_facility = s.cuebot_facility
     /\ facility_default = s.facility_default
     /\ last = [op |-> "init", was |-> 0, n |-> 1, flag |-> FALSE, k |-> 0]

Init == InitWith(facility_dict[1])

InitFacility == \E default \in Facilities : InitWith(default)

OpenIds == {windows[i] : i \in 1..Len(windows)}

\* the other open windows whose slot name or live title is val
Colliding(id, val) ==
  {o \in OpenIds \ {id} : win[o].name = val \/ win[o].title = val}

OpenWindow(name) ==
  /\ last.k < MaxOps
  /\ windows # <<>>
  /\ LET s == windowMenuOpenWindow(State, name)
     IN Becomes(s) /\ last' = Op("open", Len(s.win) - Len(win), FALSE)

MenuActivate(action) ==
  /\ last.k < MaxOps
  /\ windows # <<>>
  /\ LET s == windowMenuTriggered(State, action)
     IN Becomes(s) /\ last' = Op("menu", Len(s.win) - Len(win), FALSE)

ChangeTitle(id, val, choice) ==
  /\ last.k < MaxOps
  /\ id \in OpenIds
  /\ LET s == windowMenuHandleChangeTitle(State, id, val, choice)
     IN Becomes(s)
        /\ last' = Op("title",
                      IF choice THEN Cardinality(Colliding(id, val)) ELSE 0,
                      choice /\ s # State)

SaveWindowSettings(id) ==
  /\ last.k < MaxOps
  /\ id \in OpenIds
  /\ Becomes(saveSettings(State, id))
  /\ last' = Op("save", 0, FALSE)

CloseWindow(id) ==
  /\ last.k < MaxOps
  /\ id \in OpenIds
  /\ LET s == windowCloseWindow(State, id)
     IN Becomes(s) /\ last' = Op("close", Count(s, "closeEvent"), FALSE)

CloseApplication(id) ==
  /\ last.k < MaxOps
  /\ id \in OpenIds
  /\ LET s == windowCloseApplication(State, id)
     IN Becomes(s) /\ last' = Op("exit", Count(s, "closeEvent"), FALSE)

RevertLayout(id, result) ==
  /\ last.k < MaxOps
  /\ id \in OpenIds
  /\ LET s == revertLayout(State, id, result)
     IN Becomes(s) /\ last' = Op("revert", Count(s, "closeEvent"), result = "Yes")

\* the user clicks a facility entry: Qt flips its check mark, then the menu
\* emits triggered(action)
userToggle(s, id, facility) ==
  LET chk == s.actions_facility[id]
  IN facilityMenuHandle(
       [s EXCEPT !.actions_facility[id] =
          IF facility \in chk THEN chk \ {facility} ELSE chk \cup {facility}],
       id, facility)

FacilityToggle(id, facility) ==
  /\ last.k < MaxOps
  /\ id \in OpenIds
  /\ LET s == userToggle(State, id, facility)
     IN Becomes(s)
        /\ last' = Op("facility", Count(s, "setFacility"),
                      facility \notin actions_facility[id])

Destroy(id) ==
  /\ last.k < MaxOps
  /\ windows # <<>>
  /\ id \in 1..Len(win)
  /\ win[id].st = "closed"
  /\ Becomes(destroy(State, id))
  /\ last' = Op("destroy", 0, FALSE)

\* texts a rename request may carry: the bounded choices, the live titles and
\* the slot names of the open windows
TitleInputs ==
  TitleChoices \cup {win[i].title : i \in OpenIds} \cup {win[i].name : i \in OpenIds}

\* window objects that have been closed
Closes == Len(win) - Len(windows)

Next ==
  \/ \E name \in Names : OpenWindow(name)
  \/ \E action \in Names : MenuActivate(action)
  \/ \E id \in OpenIds, val \in TitleChoices : ChangeTitle(id, val, TRUE)
  \/ Closes < MaxCloses /\ \E id \in OpenIds : CloseWindow(id)

Spec == Init /\ [][Next]_vars

NextFacility ==
  \/ \E id \in OpenIds, facility \in Facilities : FacilityToggle(id, facility)
  \/ \E name \in Names : OpenWindow(name)

SpecFacility == InitFacility /\ [][NextFacility]_vars

NextExit ==
  \/ \E name \in Names : OpenWindow(name)
  \/ Closes < MaxCloses /\ \E id \in OpenIds : CloseWindow(id)
  \/ \E id \in OpenIds : CloseApplication(id)
  \/ \E id \in OpenIds, result \in {"Yes", "No"} : RevertLayout(id, result)
  \/ \E id \in 1..Len(win) : Destroy(id)

SpecExit == Init /\ [][NextExit]_vars

NextSettings ==
  \/ \E name \in Names : OpenWindow(name)
  \/ \E id \in OpenIds : ChangeTitle(id, win[id].title, FALSE)
  \/ \E id \in OpenIds : SaveWindowSettings(id)
  \/ Closes < MaxCloses /\ \E id \in OpenIds : CloseWindow(id)

SpecSettings == Init /\ [][NextSettings]_vars

(* ------------------------------ claims -------------------------------- *)
Occupant(name) == {id \in OpenIds : win[id].name = name}

\* C1: MainWindow.windows never holds the same window twice, never holds two
\* windows with the same slot name, and never has more than 4 elements.
C1_RegistryInvariant ==
  /\ \A i, j \in 1..Len(windows) : windows[i] = windows[j] => i = j
  /\ \A i, j \in 1..Len(windows) :
       win[windows[i]].name = win[windows[j]].name => i = j
  /\ Len(windows) <= 4

\* all four slots are occupied and a further open request was made
C1_Witness ==
  /\ Len(windows) = 4
  /\ last.op \in {"open", "menu"}
  /\ last.was = 4

\* C2: windowMenuOpenWindow(name), called while a window with slot name
\* `name` is in MainWindow.windows, raises that window, constructs nothing and
\* leaves MainWindow.windows and everything else as it was.
C2_IdempotentOpen ==
  \A name \in Names : \A id \in Occupant(name) :
    windowMenuOpenWindow(State, name)
      = [State EXCEPT !.effects = <<Effect("raise", id, <<>>)>>]

\* an open request for an occupied slot has just been served, with another
\* window open as well
C2_Witness ==
  /\ last.op = "open"
  /\ last.n = 0
  /\ last.was >= 2
  /\ Len(windows) = last.was

\* C3: one activation of a Window-menu slot entry adds at most one window to
\* MainWindow.windows.
C3_OneWindowPerClick == last.op = "menu" => last.n <= 1

\* C4: an accepted rename dialog whose value is the slot name or the live
\* title of another open window changes neither the requesting window's live
\* title, nor windows_titles of its slot, nor the persisted "<slot>/Title".
C4_RejectedRename ==
  \A id \in OpenIds : \A val \in TitleInputs :
    Colliding(id, val) # {} =>
      LET r == windowMenuHandleChangeTitle(State, id, val, TRUE)
          name == win[id].name
      IN /\ windowTitle(r, id) = win[id].title
         /\ r.windows_titles[name] = windows_titles[name]
         /\ (Key(name, "Title") \in DOMAIN r.settings)
              = (Key(name, "Title") \in DOMAIN settings)
         /\ value(r.settings, Key(name, "Title"), <<>>)
              = value(settings, Key(name, "Title"), <<>>)

\* a rename request that collided with another open window has just been
\* turned down
C4_Witness ==
  /\ last.op = "title"
  /\ last.n >= 1
  /\ ~last.flag

\* C5: no two slots have the same title in windows_titles and no two open
\* windows have the same live title.
C5_TitlesUnique ==
  /\ \A a, b \in Names : windows_titles[a] = windows_titles[b] => a = b
  /\ \A a, b \in OpenIds : win[a].title = win[b].title => a = b

\* C6: in every open window's facility menu exactly one entry is checked,
\* after construction and after every run of the toggle handler; a toggle
\* that unchecks the only checked entry leaves the default facility checked,
\* and a toggle that checks an entry leaves that entry alone checked.
C6_ExactlyOneChecked ==
  \A id \in OpenIds :
    /\ Cardinality(actions_facility[id]) = 1
    /\ \A facility \in Facilities :
         LET r == userToggle(State, id, facility).actions_facility[id]
         IN /\ actions_facility[id] = {facility} => r = {facility_default}
            /\ facility \notin actions_facility[id] => r = {facility}

\* the user has just unchecked the checked entry of one of several windows
C6_Witness ==
  /\ last.op = "facility"
  /\ ~last.flag
  /\ last.was >= 2

\* C7: one user toggle of a facility entry makes exactly one setFacility call
\* followed by exactly one facility_changed emission, and the facility
\* passed to setFacility is the entry that is checked when the handler
\* returns.
C7_OneBackendCall ==
  \A id \in OpenIds : \A facility \in Facilities :
    LET r == userToggle(State, id, facility)
    IN \E checked \in Facilities :
         /\ r.actions_facility[id] = {checked}
         /\ r.effects = <<Effect("setFacility", id, <<checked>>),
                          Effect("facility_changed", id, <<>>)>>

\* the user has just checked an entry, which made the handler uncheck its
\* sibling, and the backend was called once
C7_Witness ==
  /\ last.op = "facility"
  /\ last.flag
  /\ last.n = 1

\* C8: the entry checked in every open window's facility menu is the facility
\* most recently passed to setFacility (the default if none was passed).
C8_FacilityConsistent ==
  \A id \in OpenIds : actions_facility[id] = {cuebot_facility}

\* C9: application exit handles the close event of every window that is in
\* MainWindow.windows exactly once and leaves MainWindow.windows empty.
C9_ExitClosesEachOnce ==
  \A id \in OpenIds :
    LET r == windowCloseApplication(State, id)
    IN /\ \A w \in OpenIds :
            Len(SelectSeq(r.effects, LAMBDA e : e = Effect("closeEvent", w, <<>>))) = 1
       /\ r.windows = <<>>

\* the application has just exited with several windows open
C9_Witness ==
  /\ last.op = "exit"
  /\ last.was >= 2
  /\ last.n >= last.was
  /\ windows = <<>>

\* C10: after an application exit "<slot>/Open" is true exactly for the slots
\* that had an open window when the exit began; in particular a slot whose
\* window was closed on its own before and not reopened has it false.
C10_OpenFlags ==
  \A id \in OpenIds :
    LET r == windowCloseApplication(State, id)
    IN \A name \in Names :
         (value(r.settings, Key(name, "Open"), FALSE) = TRUE)
           <=> (Occupant(name) # {})

\* C11: every slot without an open window whose title in windows_titles is its
\* bare slot name has the label "(n) Add new window", n being its position in
\* windows_names; this includes a slot opened and closed again without a
\* rename.
C11_AddNewLabel ==
  \A n \in 1..Len(windows_names) :
    LET name == windows_names[n]
    IN (Occupant(name) = {} /\ windows_titles[name] = name)
         => windows_actions[name] = AddLabel(n)

\* C11 as amended: a slot without an open window has the label
\* "(n) Add new window" exactly when no non-empty "<slot>/Title" is persisted
\* for it; once a title is persisted (the slot's window was closed or saved)
\* the label is "Open Window: " followed by the slot's title, also when that
\* title is the bare slot name.
C11_LabelOfFreeSlot ==
  \A n \in 1..Len(windows_names) :
    LET name == windows_names[n]
    IN Occupant(name) = {} =>
         windows_actions[name] =
           IF value(settings, Key(name, "Title"), <<>>) # <<>>
           THEN <<"Open Window: ">> \o windows_titles[name]
           ELSE AddLabel(n)

\* a window that was never renamed has just been closed, and another slot has
\* never been used
C11_Witness ==
  /\ last.op = "close"
  /\ \E name \in Names :
       /\ Occupant(name) = {}
       /\ windows_titles[name] = name
       /\ Key(name, "Title") \in DOMAIN settings
  /\ \E name \in Names :
       /\ Occupant(name) = {}
       /\ Key(name, "Title") \notin DOMAIN settings

\* C12: the menu entry of every slot with an open window reads
\* "Raise Window: " followed by that window's live title, so no occupied slot
\* shows an "Add new window" or "Open Window" label.
C12_RaiseLabels ==
  \A id \in OpenIds :
    windows_actions[win[id].name] = <<"Raise Window: ">> \o win[id].title

\* C13: when a window that carries a title T accepted by the rename dialog is
\* closed, the menu entry of its slot reads "Open Window: T", and activating
\* that entry from another window constructs exactly one window, of that
\* slot, with live title T.
C13_RoundTrip ==
  \A id \in OpenIds :
    LET name == win[id].name
        T == win[id].title
    IN (/\ OpenIds \ {id} # {}
        /\ T \in TitleChoices
        /\ T # name
        /\ windows_titles[name] = T)
         => LET s1 == windowCloseWindow(State, id)
                s2 == windowMenuTriggered(s1, name)
                new == Len(s1.win) + 1
            IN /\ s1.windows_actions[name] = <<"Open Window: ">> \o T
               /\ Len(s2.win) = new
               /\ s2.windows = Append(s1.windows, new)
               /\ s2.win[new].name = name
               /\ s2.win[new].title = T

\* C14: "RevertLayout" is persisted (as true) only when the user confirms the
\* question dialog, and then the application exits, closing every open
\* window; when the user declines, no setting is written, closingApp keeps
\* its value and no window is closed.
C14_RevertLayout ==
  /\ <<"RevertLayout">> \in DOMAIN settings =>
       /\ settings[<<"RevertLayout">>] = TRUE
       /\ closingApp
       /\ windows = <<>>
  /\ \A id \in OpenIds :
       LET yes == revertLayout(State, id, "Yes")
           no == revertLayout(State, id, "No")
       IN /\ value(yes.settings, <<"RevertLayout">>, FALSE) = TRUE
          /\ yes.closingApp
          /\ yes.windows = <<>>
          /\ \A w \in OpenIds :
               \E i \in 1..Len(yes.effects) :
                 yes.effects[i] = Effect("closeEvent", w, <<>>)
          /\ no.settings = settings
          /\ no.closingApp = closingApp
          /\ no.windows = windows
          /\ no.win = win
          /\ no.effects = <<>>

\* the user has just confirmed the dialog with several windows open
C14_Witness ==
  /\ last.op = "revert"
  /\ last.flag
  /\ last.was >= 2
  /\ last.n >= last.was
  /\ windows = <<>>
  /\ <<"RevertLayout">> \in DOMAIN settings

\* C15: an accepted rename dialog whose value is neither the slot name nor
\* the live title of any other open window is applied: afterwards the
\* requesting window's live title, windows_titles of its slot and the
\* persisted "<slot>/Title" are the requested value.  (Stated for a value
\* that differs from the window's current title, such as its own slot name
\* after it was given another title.)
C15_AppliedUnlessCollision ==
  \A id \in OpenIds : \A val \in TitleInputs :
    (Colliding(id, val) = {} /\ val # win[id].title) =>
      LET r == windowMenuHandleChangeTitle(State, id, val, TRUE)
          name == win[id].name
      IN /\ windowTitle(r, id) = val
         /\ r.windows_titles[name] = val
         /\ Key(name, "Title") \in DOMAIN r.settings
         /\ r.settings[Key(name, "Title")] = val


\* C16: closed is terminal.  A window whose close handling has completed is
\* no longer subscribed to quit, and a later application exit runs no close
\* handling for it, so the settings of its slot are written by nobody but
\* an open window.
C16_ClosedIsTerminal ==
  \A id \in 1..Len(win) :
    win[id].st = "closed" =>
      /\ \A i \in 1..Len(quit) : quit[i] # id
      /\ \A by \in OpenIds :
           LET r == windowCloseApplication(State, by)
           IN \A i \in 1..Len(r.effects) :
                r.effects[i].op = "closeEvent" => r.effects[i].id # id


\* C17: activating the entry labelled "(n) Add new window" of a slot without
\* an open window leaves a window named after the n-th slot in windows,
\* whatever titles the other open windows have.
C17_AddOpensNthSlot ==
  \A n \in 1..Len(windows_names) :
    LET name == windows_names[n]
    IN (Occupant(name) = {} /\ windows_actions[name] = AddLabel(n)) =>
         LET r == windowMenuTriggered(State, name)
         IN \E i \in 1..Len(r.windows) : r.win[r.windows[i]].name = name


\* C18: closing one window through its own close affordance removes exactly
\* that window from windows: the other open windows stay in the same order
\* with their live titles, closingApp stays false, the closed slot's
\* "<slot>/Open" is written false and no other window is closed.
C18_CloseOnlyThisWindow ==
  \A id \in OpenIds :
    LET r == windowCloseWindow(State, id)
        name == win[id].name
    IN /\ r.windows = SelectSeq(windows, LAMBDA x : x # id)
       /\ \A i \in 1..Len(r.windows) :
            windowTitle(r, r.windows[i]) = win[r.windows[i]].title
       /\ r.closingApp = FALSE
       /\ Key(name, "Open") \in DOMAIN r.settings
       /\ r.settings[Key(name, "Open")] = FALSE
       /\ \A i \in 1..Len(r.effects) :
            r.effects[i].op = "closeEvent" => r.effects[i].id = id

\* a window was closed on its own while two others were open, one of them
\* behind it in windows
C18_Witness ==
  /\ last.op = "close"
  /\ last.was >= 3
  /\ Len(windows) = last.was - 1
  /\ closingApp = FALSE
  /\ \E i \in 1..Len(win) :
       /\ win[i].st = "closed"
       /\ \E j \in 1..Len(windows) : windows[j] > i
       /\ value(settings, Key(win[i].name, "Open"), TRUE) = FALSE


\* C19: activating the menu entry of a slot with an open window, labelled
\* "Raise Window: <title>", raises the window of that slot and no other
\* window, and changes neither windows nor any title.
C19_RaiseIsFaithful ==
  \A id \in OpenIds :
    LET name == win[id].name
    IN windows_actions[name] = <<"Raise Window: ">> \o win[id].title =>
         LET r == windowMenuTriggered(State, name)
         IN /\ r.effects # <<>>
            /\ \A i \in 1..Len(r.effects) :
                 r.effects[i].op = "raise" /\ r.effects[i].id = id
            /\ r.windows = windows
            /\ r.win = win
            /\ r.windows_titles = windows_titles

====
